---- MODULE Spec2Model ----
(***************************************************************************)
(* SentinelMCP: the multi-agent orchestration pipeline of                  *)
(* src/agents/orchestrator.py (PlanningAgent, RetrievalAgent,              *)
(* AnalysisAgent, GuardAgent, AgentOrchestrator) and the retrieval wrapper *)
(* of src/rag/retriever.py.                                                *)
(*                                                                         *)
(* Python values are modelled as follows.  A str is a TLA+ string (TLC     *)
(* evaluates Len, \o and SubSeq on strings).  A dict is a function whose   *)
(* DOMAIN is the set of its keys.  A list is a sequence.  A float is the   *)
(* exact rational it denotes, written as a pair of integers <<num, den>>   *)
(* with den > 0.  None is the string None, and the pair NoneFloat where a  *)
(* float is expected.  The clock is read once per request, in half         *)
(* seconds: trace entries carry no timestamp and a FinalResult carries no  *)
(* processing time.  A call that may raise gives Ok(value) or Raise(error).*)
(***************************************************************************)
EXTENDS Integers, Sequences, FiniteSets, TLC

VARIABLES
    pc,                   \* position of process_request: "idle", "loop", "done"
    agents,               \* self.agents: stage identifier -> stage implementation
    request,              \* the request dict handed to process_request
    clock,                \* what datetime.now() reads, in half seconds
    context,              \* the workflow context dict of the run
    current_agent,        \* _execute_workflow: current_agent
    step,                 \* _execute_workflow: step
    trace,                \* _execute_workflow: trace
    invocations,          \* ghost: number of agent.process calls of the run
    guarded,              \* ghost: response texts GuardAgent.process was given
    faults,               \* ghost: the faults agent.process calls raised
    start_time,           \* process_request: start_time, in half seconds
    index_calls,          \* the (query, n_results) the index was queried with
    index_fault,          \* ghost: the last query of the index faulted
    final_response,       \* what process_request returned (NotDone before)
    conversation_history, \* self.conversation_history
    calls,                \* concurrent calls of process_request: their local state
    fn,                   \* unit harness: the function under test ("none" in a run)
    arg,                  \* unit harness: its argument
    out                   \* unit harness: its result (NotDone before the call)

vars == <<pc, agents, request, clock, context, current_agent, step, trace, invocations,
          guarded, faults, start_time, index_calls, index_fault, final_response,
          conversation_history, calls, fn, arg, out>>

runVars == <<pc, agents, request, clock, context, current_agent, step, trace, invocations,
             guarded, faults, start_time, index_calls, index_fault, final_response,
             conversation_history>>

fnVars == <<fn, arg, out>>

None == "<None>"

(***************************************************************************)
(* Strings                                                                 *)
(***************************************************************************)

UpperCase == "ABCDEFGHIJKLMNOPQRSTUVWXYZ"

LowerCase == "abcdefghijklmnopqrstuvwxyz"

\* the lower-case letter of each upper-case letter
LowerOf == [c \in {SubSeq(UpperCase, i, i) : i \in 1..Len(UpperCase)} |->
               LET i == CHOOSE j \in 1..Len(UpperCase) : SubSeq(UpperCase, j, j) = c
               IN  SubSeq(LowerCase, i, i)]

\* str.lower() of a one-character string
LowerChar(c) == IF c \in DOMAIN LowerOf THEN LowerOf[c] ELSE c

\* str.lower(): character by character (halving keeps the recursion shallow)
RECURSIVE Lower(_)
Lower(s) ==
    IF Len(s) = 0 THEN ""
    ELSE IF Len(s) = 1 THEN LowerChar(s)
    ELSE LET h == Len(s) \div 2
         IN  Lower(SubSeq(s, 1, h)) \o Lower(SubSeq(s, h + 1, Len(s)))

\* Python's `p in s` for strings
Contains(s, p) ==
    \E i \in 1..(Len(s) - Len(p) + 1) : SubSeq(s, i, i + Len(p) - 1) = p

\* Python's s[:n]
Prefix(s, n) == SubSeq(s, 1, IF Len(s) < n THEN Len(s) ELSE n)

\* c * n
RECURSIVE Repeat(_, _)
Repeat(c, n) ==
    IF n <= 0 THEN ""
    ELSE IF n = 1 THEN c
    ELSE LET h == Repeat(c, n \div 2)
         IN  IF n % 2 = 0 THEN h \o h ELSE h \o h \o c

\* dict.get(key, default)
Get(d, key, default) == IF key \in DOMAIN d THEN d[key] ELSE default

\* mutant of Update: the dict is replaced by the update
Update_Replace(d, u) == u

\* dict.update / {**a, **b}: the keys of b win
Update(d, u) ==
    [key \in DOMAIN d \cup DOMAIN u |-> IF key \in DOMAIN u THEN u[key] ELSE d[key]]

EmptyDict == [key \in {} |-> None]

Min(a, b) == IF a <= b THEN a ELSE b

(***************************************************************************)
(* Results of calls that may raise                                         *)
(***************************************************************************)

Ok(v) == [ok |-> TRUE, value |-> v]

Raise(e) == [ok |-> FALSE, error |-> e]

(***************************************************************************)
(* GuardAgent                                                              *)
(***************************************************************************)

sensitive_patterns == <<"password", "ssn", "credit card", "api key">>

MaxResponseLen == 2000

LengthViolation == "Response is very long and may need human review"

SensitiveViolation(pattern) ==
    "Contains potentially sensitive information: " \o pattern

\* the for loop of _check_policies over sensitive_patterns[i..]
RECURSIVE SensitiveViolations(_, _)
SensitiveViolations(response_lower, i) ==
    IF i > Len(sensitive_patterns) THEN << >>
    ELSE (IF Contains(response_lower, sensitive_patterns[i])
          THEN << SensitiveViolation(sensitive_patterns[i]) >>
          ELSE << >>)
         \o SensitiveViolations(response_lower, i + 1)

\* mutant of TooLong: the limit itself counts as too long
TooLong_Inclusive(response) == Len(response) >= MaxResponseLen

TooLong(response) == Len(response) > MaxResponseLen

\* mutant of Approved: only the sensitive-term violations withhold approval
Approved_ContentOnly(violations) ==
    \A i \in 1..Len(violations) : violations[i] = LengthViolation

Approved(violations) == Len(violations) = 0

\* mutant of CheckPolicies: the patterns are searched in the response as given
CheckPolicies_CaseSensitive(response) ==
    LET sens       == SensitiveViolations(response, 1)
        violations == sens \o (IF TooLong(response) THEN << LengthViolation >> ELSE << >>)
    IN  [approved        |-> Approved(violations),
         violations      |-> violations,
         requires_review |-> (Len(sens) > 0) \/ TooLong(response)]

\* GuardAgent._check_policies(response, context)
CheckPolicies(response) ==
    LET sens       == SensitiveViolations(Lower(response), 1)
        violations == sens \o (IF TooLong(response) THEN << LengthViolation >> ELSE << >>)
    IN  [approved        |-> Approved(violations),
         violations      |-> violations,
         requires_review |-> (Len(sens) > 0) \/ TooLong(response)]

\* mutant of GuardNextAgent: the guard always ends the run at 'complete'
GuardNextAgent_AlwaysComplete(policy_check) == "complete"

GuardNextAgent(policy_check) ==
    IF policy_check.requires_review THEN "human" ELSE "complete"

\* mutant of GuardProcess: a response with violations is replaced by a notice
GuardProcess_Redacts(ctx) ==
    LET analysis_result == Get(ctx, "analysis_result", EmptyDict)
        response        == Get(analysis_result, "response", "")
        policy_check    == CheckPolicies(response)
    IN  Ok([guard_result |->
               [policy_approved       |-> policy_check.approved,
                policy_violations     |-> policy_check.violations,
                requires_human_review |-> policy_check.requires_review,
                modified_response     |-> IF policy_check.approved THEN response
                                          ELSE "[withheld]"],
            next_agent |-> GuardNextAgent(policy_check)])

\* GuardAgent.process(context): the partial update it returns
GuardProcess(ctx) ==
    LET analysis_result == Get(ctx, "analysis_result", EmptyDict)
        response        == Get(analysis_result, "response", "")
        policy_check    == CheckPolicies(response)
    IN  Ok([guard_result |->
               [policy_approved       |-> policy_check.approved,
                policy_violations     |-> policy_check.violations,
                requires_human_review |-> policy_check.requires_review,
                modified_response     |-> Get(policy_check, "modified_response", response)],
            next_agent |-> GuardNextAgent(policy_check)])

(***************************************************************************)
(* Floats as exact rationals <<num, den>>, den > 0                         *)
(***************************************************************************)

Rat(n, d) == <<n, d>>

RLe(a, b) == a[1] * b[2] <= b[1] * a[2]

REq(a, b) == a[1] * b[2] = b[1] * a[2]

RMin(a, b) == IF RLe(a, b) THEN a ELSE b

RMax(a, b) == IF RLe(b, a) THEN a ELSE b

RMul(a, b) == <<a[1] * b[1], a[2] * b[2]>>

RSub(a, b) == <<a[1] * b[2] - b[1] * a[2], a[2] * b[2]>>

RAdd(a, b) ==
    IF a[2] = b[2] THEN <<a[1] + b[1], a[2]>>
    ELSE <<a[1] * b[2] + b[1] * a[2], a[2] * b[2]>>

\* None where a float is expected
NoneFloat == <<0, 0>>

(***************************************************************************)
(* AnalysisAgent._calculate_confidence                                     *)
(***************************************************************************)

DefaultDistance == Rat(50, 100)

\* doc.get('distance', 0.5): the value under the key, None included
DistanceOf(doc) == Get(doc, "distance", DefaultDistance)

\* sum(distances): None + number raises TypeError
RECURSIVE SumDistances(_, _)
SumDistances(documents, i) ==
    IF i > Len(documents) THEN Rat(0, 1)
    ELSE RAdd(DistanceOf(documents[i]), SumDistances(documents, i + 1))

HasNoneDistance(documents) ==
    \E i \in 1..Len(documents) :
        DistanceOf(documents[i]) = NoneFloat

BaseConfidence(documents) ==
    RMin(RMul(Rat(Len(documents), 1), Rat(2, 10)), Rat(1, 1))

DistanceFactor(avg_distance) ==
    RMax(Rat(1, 10), RSub(Rat(1, 1), avg_distance))

\* mutant of ClampConfidence: the product is returned as it is
ClampConfidence_None(c) == c

ClampConfidence(c) == RMin(c, Rat(1, 1))

\* AnalysisAgent._calculate_confidence(documents)
CalculateConfidence(documents) ==
    IF Len(documents) = 0 THEN Ok(Rat(0, 1))
    ELSE IF HasNoneDistance(documents)
    THEN Raise("unsupported operand type(s) for +: 'int' and 'NoneType'")
    ELSE LET base_confidence == BaseConfidence(documents)
             avg_distance    == RMul(SumDistances(documents, 1), Rat(1, Len(documents)))
             distance_factor == DistanceFactor(avg_distance)
         IN  Ok(ClampConfidence(RMul(base_confidence, distance_factor)))

(***************************************************************************)
(* PlanningAgent                                                           *)
(***************************************************************************)

question_words == <<"what", "how", "why", "when", "where", "who", "which">>

\* str.replace(old, ""): the non-overlapping occurrences, left to right
RECURSIVE Remove(_, _)
Remove(s, old) ==
    IF Len(s) < Len(old) THEN s
    ELSE IF SubSeq(s, 1, Len(old)) = old
    THEN Remove(SubSeq(s, Len(old) + 1, Len(s)), old)
    ELSE SubSeq(s, 1, 1) \o Remove(SubSeq(s, 2, Len(s)), old)

Whitespace == {" ", "\n", "\t", "\r"}

\* str.strip()
RECURSIVE Strip(_)
Strip(s) ==
    IF Len(s) = 0 THEN s
    ELSE IF SubSeq(s, 1, 1) \in Whitespace THEN Strip(SubSeq(s, 2, Len(s)))
    ELSE IF SubSeq(s, Len(s), Len(s)) \in Whitespace THEN Strip(SubSeq(s, 1, Len(s) - 1))
    ELSE s

\* the for loop of _reformulate_query over question_words[i..]
RECURSIVE RemoveWords(_, _)
RemoveWords(reformulated, i) ==
    IF i > Len(question_words) THEN reformulated
    ELSE RemoveWords(Remove(reformulated, question_words[i] \o " "), i + 1)

\* PlanningAgent._reformulate_query(question)
ReformulateQuery(question) == Strip(RemoveWords(Lower(question), 1))

\* the keyword table of _analyze_tool_requirements, in the order of its ifs
ToolKeywords ==
    << [tool |-> "consultar_cfdi",             terms |-> <<"cfdi", "factura", "invoice">>],
       [tool |-> "consultar_curp",             terms |-> <<"curp", "identidad", "identity">>],
       [tool |-> "wikipedia_search",           terms |-> <<"wikipedia", "wiki">>],
       [tool |-> "obtener_texto_en_documento", terms |-> <<"document", "pdf", "texto">>] >>

AnyTermIn(terms, question_lower) ==
    \E j \in 1..Len(terms) : Contains(question_lower, terms[j])

RECURSIVE ToolsNeeded(_, _)
ToolsNeeded(question_lower, i) ==
    IF i > Len(ToolKeywords) THEN << >>
    ELSE (IF AnyTermIn(ToolKeywords[i].terms, question_lower)
          THEN << ToolKeywords[i].tool >>
          ELSE << >>)
         \o ToolsNeeded(question_lower, i + 1)

\* mutant of AnalyzeToolRequirements: the keywords are searched in the question
\* as given
AnalyzeToolRequirements_CaseSensitive(question) == ToolsNeeded(question, 1)

\* PlanningAgent._analyze_tool_requirements(question)
AnalyzeToolRequirements(question) == ToolsNeeded(Lower(question), 1)

\* mutant of PlanningProcess: the plan hands over to the analysis stage
PlanningProcess_SkipsRetrieval(ctx) ==
    LET question == Get(ctx, "question", "")
    IN  Ok([plan |->
               [original_question    |-> question,
                reformulated_query   |-> ReformulateQuery(question),
                retrieval_strategy   |-> "semantic_search",
                requires_tools       |-> AnalyzeToolRequirements(question),
                estimated_complexity |-> "medium"],
            next_agent |-> "analysis"])

\* PlanningAgent.process(context)
PlanningProcess(ctx) ==
    LET question == Get(ctx, "question", "")
    IN  Ok([plan |->
               [original_question    |-> question,
                reformulated_query   |-> ReformulateQuery(question),
                retrieval_strategy   |-> "semantic_search",
                requires_tools       |-> AnalyzeToolRequirements(question),
                estimated_complexity |-> "medium"],
            next_agent |-> "retrieval"])

(***************************************************************************)
(* RetrievalService.retrieve and RetrievalAgent                            *)
(***************************************************************************)

DefaultK == 5

\* one formatted result of retrieve, from hit i of the results of the index
FormatHit(results, i) ==
    LET hit == results.hits[i]
    IN  [id       |-> hit.id,
         content  |-> hit.document,
         metadata |-> hit.metadata,
         distance |-> IF results.has_distances THEN hit.distance ELSE NoneFloat,
         source   |-> Get(hit.metadata, "source", "unknown")]

\* RetrievalService.retrieve(query, k), given what collection.query did:
\* a fault of the embedding or of the query is caught and gives []
Retrieve(query, k, index) ==
    IF index.fault THEN << >>
    ELSE [i \in 1..Len(index.results.hits) |-> FormatHit(index.results, i)]

\* the k and the query RetrievalAgent.process hands to retrieve
RetrievalK(ctx) == Get(ctx, "k", DefaultK)

RetrievalQuery(ctx) ==
    Get(Get(ctx, "plan", EmptyDict), "reformulated_query", Get(ctx, "question", ""))

\* RetrievalAgent.process(context), given what collection.query did
RetrievalProcess(ctx, index) ==
    LET k         == RetrievalK(ctx)
        query     == RetrievalQuery(ctx)
        documents == Retrieve(query, k, index)
    IN  Ok([retrieval_result |->
               [query_used      |-> query,
                documents_found |-> Len(documents),
                documents       |-> documents],
            next_agent |-> "analysis"])

(***************************************************************************)
(* AnalysisAgent                                                           *)
(***************************************************************************)

TopDocs == 3

SnippetLen == 200

Snippet(doc) ==
    "From " \o Get(doc, "source", "unknown") \o ": "
            \o Prefix(Get(doc, "content", ""), SnippetLen)

\* "\n\n".join(context_snippets) over documents[i..n]
RECURSIVE JoinSnippets(_, _, _)
JoinSnippets(documents, i, n) ==
    IF i > n THEN ""
    ELSE IF i = n THEN Snippet(documents[i])
    ELSE Snippet(documents[i]) \o "\n\n" \o JoinSnippets(documents, i + 1, n)

NoInformation(question) ==
    "I couldn't find relevant information to answer: " \o question

\* mutant of GenerateResponse: the empty document list goes through the template
GenerateResponse_NoEmptyCase(question, documents) ==
    "Based on the available documents, here's what I found regarding '"
    \o question \o "':\n\n"
    \o JoinSnippets(documents, 1, Min(Len(documents), TopDocs))
    \o "\n\nThis information is based on the retrieved documents. "
    \o "For more specific details, please refer to the source documents."

\* AnalysisAgent._generate_response(question, documents, plan)
GenerateResponse(question, documents) ==
    IF Len(documents) = 0 THEN NoInformation(question)
    ELSE "Based on the available documents, here's what I found regarding '"
         \o question \o "':\n\n"
         \o JoinSnippets(documents, 1, Min(Len(documents), TopDocs))
         \o "\n\nThis information is based on the retrieved documents. "
         \o "For more specific details, please refer to the source documents."

\* the names create_mcp_server registers
RegisteredTools ==
    {"wikipedia_search", "consultar_cfdi", "consultar_curp", "obtener_texto_en_documento"}

\* what one iteration of the loop of _execute_tools stores for tool_name;
\* call is what the registered callable did (only wikipedia_search is called)
ToolResult(tool_name, call) ==
    IF tool_name = "wikipedia_search"
    THEN (IF call.ok THEN call.value
          ELSE "Error executing " \o tool_name \o ": " \o call.error)
    ELSE "Tool " \o tool_name \o " requires specific parameters"

\* mutant of ExecuteTools: the loop ends at the first tool that faults
ExecuteTools_StopsAtFault(required_tools, call) ==
    LET faulting == {i \in 1..Len(required_tools) :
                        required_tools[i] = "wikipedia_search" /\ ~call.ok}
        reached  == {i \in 1..Len(required_tools) : \A j \in faulting : i <= j}
        used     == {required_tools[i] : i \in reached} \cap RegisteredTools
    IN  [tool_name \in used |-> ToolResult(tool_name, call)]

\* AnalysisAgent._execute_tools(required_tools, context)
ExecuteTools(required_tools, call) ==
    LET used == {required_tools[i] : i \in 1..Len(required_tools)} \cap RegisteredTools
    IN  [tool_name \in used |-> ToolResult(tool_name, call)]

Sources(documents) ==
    [i \in 1..Len(documents) |-> Get(documents[i], "source", "unknown")]

\* AnalysisAgent.process(context), given what the wikipedia_search callable does
AnalysisProcess(ctx, call) ==
    LET question         == Get(ctx, "question", "")
        plan             == Get(ctx, "plan", EmptyDict)
        retrieval_result == Get(ctx, "retrieval_result", EmptyDict)
        documents        == Get(retrieval_result, "documents", << >>)
        response         == GenerateResponse(question, documents)
        required_tools   == Get(plan, "requires_tools", << >>)
        tool_results     == IF Len(required_tools) > 0
                            THEN ExecuteTools(required_tools, call)
                            ELSE EmptyDict
        confidence       == CalculateConfidence(documents)
    IN  IF confidence.ok
        THEN Ok([analysis_result |->
                    [response     |-> response,
                     tool_results |-> tool_results,
                     sources      |-> Sources(documents),
                     confidence   |-> confidence.value],
                 next_agent |-> "guard"])
        ELSE Raise(confidence.error)

(***************************************************************************)
(* The collaborators: the vector index and the wikipedia_search callable   *)
(***************************************************************************)

MaxDocs == 2

LongSource == Repeat("s", MaxResponseLen)

\* what collection.query may hold: raw hits with their metadata and distance
Corpus ==
    { [id |-> "d1", document |-> "CFDI is the digital invoice.",
       metadata |-> [source |-> "sat.pdf"], distance |-> Rat(30, 100)],
      [id |-> "d2", document |-> "The admin Password is hunter2.",
       metadata |-> EmptyDict, distance |-> Rat(120, 100)],
      [id |-> "d3", document |-> "Annex",
       metadata |-> [source |-> LongSource], distance |-> Rat(-20, 100)] }

RECURSIVE HitLists(_)
HitLists(n) ==
    IF n <= 0 THEN { << >> }
    ELSE LET shorter == HitLists(n - 1)
         IN  shorter \cup
             { Append(h, d) : h \in {x \in shorter : Len(x) = n - 1},
                              d \in Corpus }

NoRepeat(h) == \A i, j \in 1..Len(h) : i # j => h[i].id # h[j].id

\* what collection.query(query_embeddings, n_results = k) may do: fault, or
\* give at most k hits, with or without their distances
IndexOutcomes(k) ==
    { [fault |-> TRUE] } \cup
    { [fault |-> FALSE, results |-> [hits |-> h, has_distances |-> d]] :
        h \in {x \in HitLists(Min(k, MaxDocs)) : k > 0 /\ NoRepeat(x)},
        d \in BOOLEAN }

\* what the registered wikipedia_search callable may do when called
WikiOutcomes(question) ==
    { Ok("No Wikipedia article found for '" \o question \o "'"),
      Raise("connection refused") }

(***************************************************************************)
(* AgentOrchestrator                                                       *)
(***************************************************************************)

max_steps == 10

StageIds == {"planning", "retrieval", "analysis", "guard"}

\* self.agents as __init__ builds it
BuiltinAgents ==
    [id \in StageIds |->
        CASE id = "planning"  -> "PlanningAgent"
          [] id = "retrieval" -> "RetrievalAgent"
          [] id = "analysis"  -> "AnalysisAgent"
          [] id = "guard"     -> "GuardAgent"]

\* Agent.process of a stage that is not one of the four: the base class
\* raises; a subclass returns any partial update or raises
NextAgentNames == StageIds \cup {"human", "complete", "archive"}

CustomOutcomes ==
    { Raise("NotImplementedError"), Ok(EmptyDict) } \cup
    { Ok([next_agent |-> n]) : n \in NextAgentNames }

NotDone == [done |-> FALSE]

\* mutant of LoopCondition: the step budget is not tested
LoopCondition_NoBudget == current_agent # "complete"

\* the while condition of _execute_workflow
LoopCondition == current_agent # "complete" /\ step < max_steps

\* mutant of TraceEntry: the entry carries the step counter before its increment
TraceEntry_ZeroBased(action) == [step |-> step, agent |-> current_agent, action |-> action]

TraceEntry(action) == [step |-> step + 1, agent |-> current_agent, action |-> action]

ErrorEntry(e) ==
    [step |-> step + 1, agent |-> current_agent, action |-> "error", error |-> e]

MaxHalfSeconds == 1

\* f"conv_{int(start_time.timestamp())}"
ConversationId(now) == "conv_" \o ToString(now \div 2)

\* process_request up to the call of _execute_workflow, and the four
\* assignments that open _execute_workflow
ProcessRequest ==
    /\ pc = "idle"
    /\ start_time' = clock
    /\ context' = Update([conversation_id |-> ConversationId(clock),
                          timestamp       |-> clock],
                         request)
    /\ current_agent' = "planning"
    /\ trace' = << >>
    /\ step' = 0
    /\ pc' = "loop"
    /\ UNCHANGED <<agents, request, clock, invocations, guarded, faults, index_calls,
                   index_fault, final_response, conversation_history, calls, fnVars>>

\* mutant of StepHuman: the iteration does not break out of the loop
StepHuman_NoBreak ==
    /\ pc = "loop"
    /\ LoopCondition
    /\ current_agent = "human"
    /\ step' = step + 1
    /\ trace' = Append(trace, TraceEntry("human_review_required"))
    /\ pc' = "loop"
    /\ UNCHANGED <<agents, request, clock, context, current_agent, invocations, guarded,
                   faults, start_time, index_calls, index_fault, final_response,
                   conversation_history, calls, fnVars>>

\* one iteration of the loop with current_agent = 'human'
StepHuman ==
    /\ pc = "loop"
    /\ LoopCondition
    /\ current_agent = "human"
    /\ step' = step + 1
    /\ trace' = Append(trace, TraceEntry("human_review_required"))
    /\ pc' = "exit"
    /\ UNCHANGED <<agents, request, clock, context, current_agent, invocations, guarded,
                   faults, start_time, index_calls, index_fault, final_response,
                   conversation_history, calls, fnVars>>

\* mutant of RunAgent: the except block does not break out of the loop
RunAgent_NoBreak(result) ==
    /\ step' = step + 1
    /\ invocations' = invocations + 1
    /\ IF result.ok
       THEN /\ context' = Update(context, result.value)
            /\ trace' = Append(trace, TraceEntry("processed"))
            /\ current_agent' = Get(result.value, "next_agent", "complete")
            /\ pc' = "loop"
            /\ UNCHANGED faults
       ELSE /\ trace' = Append(trace, ErrorEntry(result.error))
            /\ faults' = Append(faults, [step  |-> step + 1,
                                         agent |-> current_agent,
                                         error |-> result.error])
            /\ pc' = "loop"
            /\ UNCHANGED <<context, current_agent>>
    /\ UNCHANGED <<agents, request, clock, start_time, final_response,
                   conversation_history, calls, fnVars>>

\* the try block of one iteration, given what agent.process did
RunAgent(result) ==
    /\ step' = step + 1
    /\ invocations' = invocations + 1
    /\ IF result.ok
       THEN /\ context' = Update(context, result.value)
            /\ trace' = Append(trace, TraceEntry("processed"))
            /\ current_agent' = Get(result.value, "next_agent", "complete")
            /\ pc' = "loop"
            /\ UNCHANGED faults
       ELSE /\ trace' = Append(trace, ErrorEntry(result.error))
            /\ faults' = Append(faults, [step  |-> step + 1,
                                         agent |-> current_agent,
                                         error |-> result.error])
            /\ pc' = "exit"
            /\ UNCHANGED <<context, current_agent>>
    /\ UNCHANGED <<agents, request, clock, start_time, final_response,
                   conversation_history, calls, fnVars>>

\* the iteration dispatches to self.agents[current_agent], an agent of class cls
Dispatch(cls) ==
    /\ pc = "loop"
    /\ LoopCondition
    /\ current_agent # "human"
    /\ current_agent \in DOMAIN agents
    /\ agents[current_agent] = cls

StepPlanning ==
    /\ Dispatch("PlanningAgent")
    /\ \E result \in {PlanningProcess(context)} : RunAgent(result)
    /\ UNCHANGED <<guarded, index_calls, index_fault>>

StepRetrieval ==
    /\ Dispatch("RetrievalAgent")
    /\ \E index \in IndexOutcomes(RetrievalK(context)) :
          /\ \E result \in {RetrievalProcess(context, index)} : RunAgent(result)
          /\ index_fault' = index.fault
    /\ index_calls' = Append(index_calls, [query     |-> RetrievalQuery(context),
                                           n_results |-> RetrievalK(context)])
    /\ UNCHANGED guarded

StepAnalysis ==
    /\ Dispatch("AnalysisAgent")
    /\ \E result \in {AnalysisProcess(context, call) :
                         call \in WikiOutcomes(Get(context, "question", ""))} :
          RunAgent(result)
    /\ UNCHANGED <<guarded, index_calls, index_fault>>

StepGuard ==
    /\ Dispatch("GuardAgent")
    /\ \E result \in {GuardProcess(context)} : RunAgent(result)
    /\ guarded' = guarded \cup
          { Get(Get(context, "analysis_result", EmptyDict), "response", "") }
    /\ UNCHANGED <<index_calls, index_fault>>

StepCustom ==
    /\ Dispatch("Agent")
    /\ \E result \in CustomOutcomes : RunAgent(result)
    /\ UNCHANGED <<guarded, index_calls, index_fault>>

\* one iteration with current_agent neither 'human' nor a key of self.agents
StepUnknown ==
    /\ pc = "loop"
    /\ LoopCondition
    /\ current_agent # "human"
    /\ current_agent \notin DOMAIN agents
    /\ step' = step + 1
    /\ pc' = "exit"
    /\ UNCHANGED <<agents, request, clock, context, current_agent, trace, invocations,
                   guarded, faults, start_time, index_calls, index_fault, final_response,
                   conversation_history, calls, fnVars>>

\* the while condition is false
LoopExit ==
    /\ pc = "loop"
    /\ ~LoopCondition
    /\ pc' = "exit"
    /\ UNCHANGED <<agents, request, clock, context, current_agent, step, trace,
                   invocations, guarded, faults, start_time, index_calls, index_fault,
                   final_response, conversation_history, calls, fnVars>>

\* the dict _execute_workflow returns, from its context and its trace
WorkflowResultOf(ctx, tr) ==
    LET analysis_result == Get(ctx, "analysis_result", EmptyDict)
        guard_result    == Get(ctx, "guard_result", EmptyDict)
    IN  [final_response        |-> Get(guard_result, "modified_response",
                                       Get(analysis_result, "response", "")),
         sources               |-> Get(analysis_result, "sources", << >>),
         tool_results          |-> Get(analysis_result, "tool_results", EmptyDict),
         confidence            |-> Get(analysis_result, "confidence", Rat(0, 1)),
         requires_human_review |-> Get(guard_result, "requires_human_review", FALSE),
         trace                 |-> tr]

WorkflowResult == WorkflowResultOf(context, trace)

\* the dict process_request returns, from its request, its start_time and
\* what _execute_workflow returned
FinalResponseOf(req, start, workflow_result) ==
    [done                  |-> TRUE,
     conversation_id       |-> ConversationId(start),
     question              |-> Get(req, "question", ""),
     response              |-> Get(workflow_result, "final_response", "No response generated"),
     sources               |-> Get(workflow_result, "sources", << >>),
     tool_results          |-> Get(workflow_result, "tool_results", EmptyDict),
     confidence            |-> Get(workflow_result, "confidence", Rat(0, 1)),
     requires_human_review |-> Get(workflow_result, "requires_human_review", FALSE),
     workflow_trace        |-> Get(workflow_result, "trace", << >>)]

\* the dict process_request returns
FinalResponse == FinalResponseOf(request, start_time, WorkflowResult)

\* the end of _execute_workflow and the rest of process_request
Finish ==
    /\ pc = "exit"
    /\ final_response' = FinalResponse
    /\ conversation_history' = Append(conversation_history, FinalResponse)
    /\ pc' = "done"
    /\ UNCHANGED <<agents, request, clock, context, current_agent, step, trace,
                   invocations, guarded, faults, start_time, index_calls, index_fault,
                   calls, fnVars>>

(***************************************************************************)
(* Requests, and the specification of one request to the orchestrator      *)
(***************************************************************************)

Questions == {"What is CFDI?", "Reset my PassWord", "Who wrote the wiki"}

KValues == {1, 0}

\* a request as the API layer builds it: question, and k when given
PlainRequests ==
    { [question |-> q] : q \in Questions } \cup
    { [question |-> q, k |-> k] : q \in Questions, k \in KValues }

\* a request carrying keys of the stages' own results
SeededRequests ==
    { [question |-> "What is CFDI?",
       analysis_result |-> [response |-> "the api key is 42"]],
      [question |-> "What is CFDI?",
       guard_result |-> [modified_response |-> "ssn 078-05-1120",
                         requires_human_review |-> FALSE]] }

Requests == PlainRequests \cup SeededRequests

InitRun(reqs, tables, clocks) ==
    /\ pc = "idle"
    /\ agents \in tables
    /\ request \in reqs
    /\ clock \in clocks
    /\ context = EmptyDict
    /\ current_agent = "planning"
    /\ step = 0
    /\ trace = << >>
    /\ invocations = 0
    /\ guarded = {}
    /\ faults = << >>
    /\ start_time = 0
    /\ index_calls = << >>
    /\ index_fault = FALSE
    /\ final_response = NotDone
    /\ conversation_history = << >>

NoCall ==
    /\ fn = "none"
    /\ arg = None
    /\ out = NotDone

\* process_request is called once, by one caller
OneCaller == calls = << >>

Init == InitRun(Requests, {BuiltinAgents}, 0..MaxHalfSeconds) /\ NoCall /\ OneCaller

Next ==
    \/ ProcessRequest
    \/ StepHuman
    \/ StepPlanning
    \/ StepRetrieval
    \/ StepAnalysis
    \/ StepGuard
    \/ LoopExit
    \/ Finish

Spec == Init /\ [][Next]_vars

(***************************************************************************)
(* The engine over any dispatch table: some stages replaced by other       *)
(* implementations of Agent                                                *)
(***************************************************************************)

MaxCustomStages == 1

AgentTables ==
    { [id \in StageIds |-> IF id \in custom THEN "Agent" ELSE BuiltinAgents[id]] :
        custom \in {c \in SUBSET StageIds : Cardinality(c) <= MaxCustomStages} }

EngineRequests == { [question |-> "Reset my PassWord", k |-> 1] }

EngineInit == InitRun(EngineRequests, AgentTables, {0}) /\ NoCall /\ OneCaller

EngineNext ==
    \/ ProcessRequest
    \/ StepHuman
    \/ StepPlanning
    \/ StepRetrieval
    \/ StepAnalysis
    \/ StepGuard
    \/ StepCustom
    \/ StepUnknown
    \/ LoopExit
    \/ Finish

EngineSpec == EngineInit /\ [][EngineNext]_vars

(***************************************************************************)
(* Concurrent calls of process_request on one orchestrator.  The context,  *)
(* the trace, the step counter and the current stage are locals of each    *)
(* call; the calls share self.agents, self.conversation_history, the clock *)
(* and the collaborators.  A call is interleaved with the others between   *)
(* its loop iterations; list.append is one step.                           *)
(***************************************************************************)

MaxCalls == 2

ConcurrentRequests ==
    { [question |-> "What is CFDI?", k |-> 1],
      [question |-> "Reset my PassWord"] }

\* the locals of a call that has not started
IdleCall(req) ==
    [pc             |-> "idle",
     request        |-> req,
     start_time     |-> 0,
     context        |-> EmptyDict,
     current_agent  |-> "planning",
     step           |-> 0,
     trace          |-> << >>,
     final_response |-> NotDone]

\* the index while no document is ingested: it answers a query the same way
\* to every call
SharedIndex(query, k) ==
    [fault   |-> FALSE,
     results |-> [hits |-> IF k > 0 /\ Contains(query, "cfdi")
                           THEN << CHOOSE d \in Corpus : d.id = "d1" >>
                           ELSE << >>,
                  has_distances |-> TRUE]]

\* the wikipedia_search callable, answering every call
SharedWiki(question) == Ok("No Wikipedia article found for '" \o question \o "'")

\* agent.process(context) of a built-in stage of class cls
StageResult(ctx, cls) ==
    CASE cls = "PlanningAgent"  -> PlanningProcess(ctx)
      [] cls = "RetrievalAgent" ->
            RetrievalProcess(ctx, SharedIndex(RetrievalQuery(ctx), RetrievalK(ctx)))
      [] cls = "AnalysisAgent"  ->
            AnalysisProcess(ctx, SharedWiki(Get(ctx, "question", "")))
      [] cls = "GuardAgent"     -> GuardProcess(ctx)

\* process_request up to the loop, on the locals c of a call starting at now
Started(c, now) ==
    [c EXCEPT !.pc            = "loop",
              !.start_time    = now,
              !.context       = Update([conversation_id |-> ConversationId(now),
                                        timestamp       |-> now],
                                       c.request),
              !.current_agent = "planning",
              !.trace         = << >>,
              !.step          = 0]

\* the while condition of _execute_workflow, on the locals c of a call
Looping(c) == c.pc = "loop" /\ c.current_agent # "complete" /\ c.step < max_steps

\* one iteration of the loop, on the locals c of a call, with the dispatch
\* table self.agents
Iterated(c, table) ==
    IF c.current_agent = "human"
    THEN [c EXCEPT !.step  = c.step + 1,
                   !.trace = Append(c.trace, [step   |-> c.step + 1,
                                              agent  |-> "human",
                                              action |-> "human_review_required"]),
                   !.pc    = "exit"]
    ELSE IF c.current_agent \in DOMAIN table
    THEN LET result == StageResult(c.context, table[c.current_agent])
         IN  IF result.ok
             THEN [c EXCEPT !.step          = c.step + 1,
                            !.context       = Update(c.context, result.value),
                            !.trace         = Append(c.trace,
                                                     [step   |-> c.step + 1,
                                                      agent  |-> c.current_agent,
                                                      action |-> "processed"]),
                            !.current_agent = Get(result.value, "next_agent", "complete")]
             ELSE [c EXCEPT !.step  = c.step + 1,
                            !.trace = Append(c.trace, [step   |-> c.step + 1,
                                                       agent  |-> c.current_agent,
                                                       action |-> "error",
                                                       error  |-> result.error]),
                            !.pc    = "exit"]
    ELSE [c EXCEPT !.step = c.step + 1, !.pc = "exit"]

\* the FinalResult of a call whose loop has ended with the locals c
Returned(c) ==
    FinalResponseOf(c.request, c.start_time, WorkflowResultOf(c.context, c.trace))

\* the variables of the single call of Spec, which no concurrent call touches
soloVars == <<pc, request, context, current_agent, step, trace, invocations, guarded,
              faults, start_time, index_calls, index_fault, final_response>>

\* call i enters process_request and reads the clock
CallStart(i) ==
    /\ calls[i].pc = "idle"
    /\ calls' = [calls EXCEPT ![i] = Started(calls[i], clock)]
    /\ UNCHANGED <<agents, clock, conversation_history, soloVars, fnVars>>

\* call i runs one iteration of its loop
CallIterate(i) ==
    /\ Looping(calls[i])
    /\ \E c \in {Iterated(calls[i], agents)} : calls' = [calls EXCEPT ![i] = c]
    /\ UNCHANGED <<agents, clock, conversation_history, soloVars, fnVars>>

\* mutant of CallFinish: the history is rebound to a list of the one result
CallFinish_Overwrite(i) ==
    /\ calls[i].pc \in {"loop", "exit"}
    /\ ~Looping(calls[i])
    /\ \E final \in {Returned(calls[i])} :
          /\ calls' = [calls EXCEPT ![i].pc = "done", ![i].final_response = final]
          /\ conversation_history' = << final >>
    /\ UNCHANGED <<agents, clock, soloVars, fnVars>>

\* call i leaves its loop, builds its FinalResult, appends it to the shared
\* history and returns
CallFinish(i) ==
    /\ calls[i].pc \in {"loop", "exit"}
    /\ ~Looping(calls[i])
    /\ \E final \in {Returned(calls[i])} :
          /\ calls' = [calls EXCEPT ![i].pc = "done", ![i].final_response = final]
          /\ conversation_history' = Append(conversation_history, final)
    /\ UNCHANGED <<agents, clock, soloVars, fnVars>>

\* half a second passes
Tick ==
    /\ clock < MaxHalfSeconds
    /\ clock' = clock + 1
    /\ UNCHANGED <<agents, conversation_history, calls, soloVars, fnVars>>

ConcurrentInit ==
    /\ InitRun({EmptyDict}, {BuiltinAgents}, {0})
    /\ NoCall
    /\ calls \in [1..MaxCalls -> {IdleCall(req) : req \in ConcurrentRequests}]

ConcurrentNext ==
    \/ \E i \in DOMAIN calls : CallStart(i)
    \/ \E i \in DOMAIN calls : CallIterate(i)
    \/ \E i \in DOMAIN calls : CallFinish(i)
    \/ Tick

ConcurrentSpec == ConcurrentInit /\ [][ConcurrentNext]_vars

(***************************************************************************)
(* Properties of concurrent calls (ConcurrentSpec)                         *)
(***************************************************************************)

Returning == {i \in DOMAIN calls : calls[i].pc = "done"}

\* C19 as stated: any two calls that have returned, whenever they started,
\* carry different conversation_id values in their FinalResults
C19_ConversationIdsUnique ==
    \A i, j \in Returning :
        i # j => calls[i].final_response.conversation_id
                    # calls[j].final_response.conversation_id

\* the locals of a call at the end of its loop when it runs alone
RECURSIVE RunAlone(_)
RunAlone(c) ==
    IF Looping(c) THEN RunAlone(Iterated(c, BuiltinAgents)) ELSE c

\* the FinalResult a call of req alone, entered at the clock reading now,
\* returns
SoloResult ==
    [req \in ConcurrentRequests |->
        [now \in 0..MaxHalfSeconds |-> Returned(RunAlone(Started(IdleCall(req), now)))]]

\* C20: in every interleaving, a step of one call leaves the locals of every
\* other call as they were; a call that has returned has returned the
\* FinalResult its request gives alone (entered at the same clock reading);
\* and the history holds the FinalResults of the calls that have returned,
\* each as often as calls returned it, and nothing else
C20_ConcurrentCallsIndependent ==
    /\ [](/\ \A i \in Returning :
                 calls[i].final_response = SoloResult[calls[i].request][calls[i].start_time]
          /\ Len(conversation_history) = Cardinality(Returning)
          /\ \A n \in 1..Len(conversation_history) :
                 Cardinality({m \in 1..Len(conversation_history) :
                                 conversation_history[m] = conversation_history[n]})
                 = Cardinality({i \in Returning :
                                   calls[i].final_response = conversation_history[n]}))
    /\ [][\A i, j \in DOMAIN calls :
             (i # j /\ calls'[i] # calls[i]) => calls'[j] = calls[j]]_vars

\* two calls overlapped: the one that entered first returned last; one ended
\* at 'complete' and the other at 'human'
C20_Witness ==
    /\ Returning = DOMAIN calls
    /\ \E i, j \in Returning :
          /\ calls[i].start_time < calls[j].start_time
          /\ conversation_history[1] = calls[j].final_response
          /\ conversation_history[Len(conversation_history)] = calls[i].final_response
          /\ calls[i].final_response.requires_human_review
          /\ ~calls[j].final_response.requires_human_review

(***************************************************************************)
(* Properties of the engine over any dispatch table (EngineSpec)           *)
(***************************************************************************)

Last(seq) == seq[Len(seq)]

UnknownAgent(id) == id \notin DOMAIN agents \cup {"complete", "human"}

IsHumanEntry(e) == e.agent = "human" /\ e.action = "human_review_required"

IsErrorEntry(e) == e.action = "error"

IsGuardProcessed(e) == e.agent = "guard" /\ e.action = "processed"

HumanEntries == Cardinality({i \in 1..Len(trace) : IsHumanEntry(trace[i])})

ErrorEntries == Cardinality({i \in 1..Len(trace) : IsErrorEntry(trace[i])})

GuardProcessedEntries ==
    Cardinality({i \in 1..Len(trace) : IsGuardProcessed(trace[i])})

\* what is left of a run: the iterations the budget still allows, then the
\* exit from the loop, then the return
Remaining ==
    CASE pc = "idle" -> 3 * max_steps + 3
      [] pc = "loop" -> 3 * (max_steps - step) + 2
      [] pc = "exit" -> 1
      [] pc = "done" -> 0

AgentClasses == {"PlanningAgent", "RetrievalAgent", "AnalysisAgent", "GuardAgent", "Agent"}

\* the run can take a step: the call can start or return, the loop can exit,
\* or its iteration falls in one of the three branches of the loop body
CanStep ==
    \/ pc \in {"idle", "exit"}
    \/ pc = "loop" /\ ~LoopCondition
    \/ pc = "loop" /\ LoopCondition /\ current_agent = "human"
    \/ pc = "loop" /\ LoopCondition /\ UnknownAgent(current_agent)
    \/ \E cls \in AgentClasses : Dispatch(cls)

\* C1: whatever next_agent the stages return, the run ends (a run that has not
\* returned can always take a step, and every step brings the return nearer),
\* and no trace entry has a step above 10 and no more than 10 stages are
\* invoked
C1_StepBudgetAndTermination ==
    /\ [](/\ step <= max_steps
          /\ invocations <= max_steps
          /\ \A i \in 1..Len(trace) : trace[i].step <= max_steps
          /\ Remaining >= 0
          /\ (pc = "done" \/ CanStep))
    /\ [][Remaining' < Remaining]_vars

\* a planning stage that names itself ten times
C1_Witness ==
    /\ pc = "done"
    /\ Len(trace) = max_steps
    /\ \A i \in 1..Len(trace) : trace[i].agent = "planning" /\ trace[i].step = i
    /\ current_agent = "planning"

\* C2: once a stage has faulted no further stage runs, and the finished run
\* has returned a FinalResult whose trace ends with the one 'error' entry,
\* carrying the stage, the step and the message of the fault
C2_FaultIsRecordedAndHalts ==
    Len(faults) > 0 =>
        /\ pc \in {"exit", "done"}
        /\ Len(faults) = 1
        /\ invocations = faults[1].step
        /\ ErrorEntries = 1
        /\ Last(trace) = [step   |-> faults[1].step,
                          agent  |-> faults[1].agent,
                          action |-> "error",
                          error  |-> faults[1].error]
        /\ (pc = "done" => final_response.done
                           /\ final_response.workflow_trace = trace)

\* the planning stage, replaced, runs three times and faults the third time
C2_Witness ==
    /\ pc = "done"
    /\ Len(faults) = 1
    /\ faults[1].agent = "planning"
    /\ faults[1].step = 3
    /\ final_response.done

\* C3 as stated: an iteration on an identifier that is neither 'complete',
\* 'human' nor a key of the dispatch table appends a trace entry for that
\* step that names the identifier
C3_UnknownAgentTraced ==
    [][(pc = "loop" /\ LoopCondition /\ UnknownAgent(current_agent)) =>
           /\ Len(trace') = Len(trace) + 1
           /\ Last(trace').step = step + 1
           /\ Last(trace').agent = current_agent]_vars

HandedToHuman == pc = "done" /\ current_agent = "human"

EndsWithHumanEntry ==
    /\ Len(trace) > 0
    /\ IsHumanEntry(Last(trace))
    /\ HumanEntries = 1
    /\ invocations = Len(trace) - 1

\* C4 as stated: whenever a stage hands over to 'human', at whatever step,
\* the run ends with the one 'human' entry and no stage ran after it
C4_Original == HandedToHuman => EndsWithHumanEntry

\* C4 amended: a hand-over to 'human' by a stage that ran before step 10 ends
\* the run with the one 'human' entry, after which no stage runs; a hand-over
\* by the stage that ran at step 10 ends the run on the step budget with no
\* 'human' entry, the trace ending with that stage's 'processed' entry
C4_HumanHaltsWithinBudget ==
    /\ (current_agent = "human" /\ Len(trace) > 0 /\ IsHumanEntry(Last(trace)))
          => pc \in {"exit", "done"}
    /\ HandedToHuman =>
          IF invocations < max_steps
          THEN EndsWithHumanEntry
          ELSE /\ Last(trace).action = "processed"
               /\ Last(trace).step = max_steps
               /\ HumanEntries = 0

\* a replaced guard hands over to 'human' at step 9: the entry is at step 10
C4_Witness ==
    /\ HandedToHuman
    /\ EndsWithHumanEntry
    /\ Last(trace).step = max_steps

InIteration == pc = "loop" /\ current_agent # "complete" /\ step < 10

\* C18: the i-th trace entry has step i; a step of the run leaves the entries
\* of the trace as they were and appends at most one; the step counter grows
\* by exactly one in every loop iteration and in no other step
C18_TraceAppendOnlyDense ==
    /\ [](\A i \in 1..Len(trace) : trace[i].step = i)
    /\ [][/\ Len(trace) <= Len(trace')
           /\ Len(trace') <= Len(trace) + 1
           /\ SubSeq(trace', 1, Len(trace)) = trace
           /\ (InIteration => step' = step + 1)
           /\ (~InIteration => step' = step)]_vars

\* three stages ran and the fourth iteration found an unknown identifier: the
\* counter is one ahead of the trace
C18_Witness ==
    /\ pc = "done"
    /\ Len(trace) = 3
    /\ step = 4
    /\ current_agent = "archive"
    /\ \A i \in 1..Len(trace) : trace[i].action = "processed"

(***************************************************************************)
(* Properties of a request to the four built-in stages (Spec)              *)
(***************************************************************************)

\* C5 as stated: whatever keys the request carries and however the run halts,
\* a non-empty response of the FinalResult is a text the guard stage processed
\* in the same run
C5_ResponseWasGuarded ==
    (pc = "done" /\ final_response.response # "") =>
        /\ final_response.response \in guarded
        /\ GuardProcessedEntries >= 1

RetrievedDocuments ==
    Get(Get(context, "retrieval_result", EmptyDict), "documents", << >>)

AnalysisRan == \E i \in 1..Len(trace) : trace[i].agent = "analysis"

\* the average the claim describes: 0.5 for each document that has no distance
HalfForMissing(doc) ==
    IF DistanceOf(doc) = NoneFloat THEN DefaultDistance ELSE DistanceOf(doc)

RECURSIVE SumHalfForMissing(_, _)
SumHalfForMissing(documents, i) ==
    IF i > Len(documents) THEN Rat(0, 1)
    ELSE RAdd(HalfForMissing(documents[i]), SumHalfForMissing(documents, i + 1))

ConfidenceHalfForMissing(documents) ==
    RMin(RMul(BaseConfidence(documents),
              DistanceFactor(RMul(SumHalfForMissing(documents, 1),
                                  Rat(1, Len(documents))))),
         Rat(1, 1))

\* C10 as stated: when the index returned documents without distances, the
\* analysis stage completes, counts 0.5 for each of them, and the run goes on
\* to the guard stage
C10_MissingDistanceCountsHalf ==
    (AnalysisRan /\ Len(RetrievedDocuments) > 0
                 /\ \A i \in 1..Len(RetrievedDocuments) :
                       DistanceOf(RetrievedDocuments[i]) = NoneFloat) =>
        /\ \A i \in 1..Len(trace) :
              trace[i].agent = "analysis" => trace[i].action = "processed"
        /\ "analysis_result" \in DOMAIN context
        /\ REq(context["analysis_result"].confidence,
               ConfidenceHalfForMissing(RetrievedDocuments))
        /\ (pc = "done" => GuardProcessedEntries = 1)

(***************************************************************************)
(* The stages' pure functions, called on their own                         *)
(***************************************************************************)

MaxFragments == 2

Fragments == {"PassWord", "sSn", "Credit Card", "API", " Key", "pass", "word"}

RECURSIVE Texts(_)
Texts(n) ==
    IF n <= 0 THEN {""}
    ELSE LET shorter == Texts(n - 1)
         IN  shorter \cup {t \o f : t \in shorter, f \in Fragments}

\* s filled with a neutral character up to n characters
Pad(s, n) == s \o Repeat("x", n - Len(s))

PadLengths == {0, MaxResponseLen, MaxResponseLen + 1}

ResponseTexts == {Pad(t, n) : t \in Texts(MaxFragments), n \in PadLengths}

MaxConfDocs == 6

\* a formatted document with each kind of distance: absent, negative,
\* in [0, 1], above 1, None
DocChoices ==
    { [id |-> "d", content |-> "c", source |-> "s"] } \cup
    { [id |-> "d", content |-> "c", source |-> "s", distance |-> d] :
        d \in {Rat(-150, 100), Rat(30, 100), Rat(250, 100), NoneFloat} }

RECURSIVE DocLists(_)
DocLists(n) ==
    IF n <= 0 THEN { << >> }
    ELSE LET shorter == DocLists(n - 1)
         IN  shorter \cup
             { Append(l, d) : l \in {x \in shorter : Len(x) = n - 1},
                              d \in DocChoices }

MaxWords == 3

\* pieces of questions: interrogative words, pieces that become one when a
\* removal joins them, and tool keywords in several letter cases
QuestionFragments ==
    {"wh", "What ", "at is", "Who ", "CFDI", "Wiki", "pdf ", "Factura"}

RECURSIVE Phrases(_)
Phrases(n) ==
    IF n <= 0 THEN {""}
    ELSE LET shorter == Phrases(n - 1)
         IN  shorter \cup {t \o f : t \in shorter, f \in QuestionFragments}

MaxTools == 3

\* the names a plan may require: the registered ones and one that is not
ToolNames == RegisteredTools \cup {"consultar_rfc"}

RECURSIVE ToolLists(_)
ToolLists(n) ==
    IF n <= 0 THEN { << >> }
    ELSE LET shorter == ToolLists(n - 1)
         IN  shorter \cup
             { Append(l, t) : l \in {x \in shorter : Len(x) = n - 1},
                              t \in ToolNames }

AnalysisQuestion == "Who wrote the wiki"

\* the context the analysis stage finds, for each list of required tools and
\* each behaviour of the wikipedia_search callable
AnalysisArguments ==
    { [context |-> [question |-> AnalysisQuestion,
                    plan |-> [requires_tools |-> l],
                    retrieval_result |-> [documents |-> d]],
       call |-> c] :
        l \in ToolLists(MaxTools),
        d \in DocLists(1),
        c \in WikiOutcomes(AnalysisQuestion) }

FnArguments(f) ==
    CASE f = "guard"       -> ResponseTexts
      [] f = "confidence"  -> DocLists(MaxConfDocs)
      [] f = "reformulate" -> Phrases(MaxWords)
      [] f = "tools"       -> Phrases(MaxWords)
      [] f = "analysis"    -> AnalysisArguments

FnInit ==
    /\ InitRun({[question |-> ""]}, {BuiltinAgents}, {0})
    /\ OneCaller
    /\ out = NotDone
    /\ \E f \in {"guard", "confidence", "reformulate", "tools", "analysis"} :
          /\ fn = f
          /\ arg \in FnArguments(f)

\* GuardAgent.process on a context whose analysis_result holds the response arg
CallGuard ==
    /\ fn = "guard"
    /\ ~out.done
    /\ out' = [done  |-> TRUE,
               value |-> GuardProcess([analysis_result |-> [response |-> arg]]).value]
    /\ UNCHANGED <<runVars, calls, fn, arg>>

\* AnalysisAgent._calculate_confidence on the document list arg
CallConfidence ==
    /\ fn = "confidence"
    /\ ~out.done
    /\ out' = [done |-> TRUE, result |-> CalculateConfidence(arg)]
    /\ UNCHANGED <<runVars, calls, fn, arg>>

\* PlanningAgent._reformulate_query on the question arg
CallReformulate ==
    /\ fn = "reformulate"
    /\ ~out.done
    /\ out' = [done |-> TRUE, value |-> ReformulateQuery(arg)]
    /\ UNCHANGED <<runVars, calls, fn, arg>>

\* PlanningAgent._analyze_tool_requirements on the question arg
CallToolRequirements ==
    /\ fn = "tools"
    /\ ~out.done
    /\ out' = [done |-> TRUE, value |-> AnalyzeToolRequirements(arg)]
    /\ UNCHANGED <<runVars, calls, fn, arg>>

\* AnalysisAgent.process on the context arg.context, the wikipedia_search
\* callable doing arg.call
CallAnalysis ==
    /\ fn = "analysis"
    /\ ~out.done
    /\ out' = [done |-> TRUE, result |-> AnalysisProcess(arg.context, arg.call)]
    /\ UNCHANGED <<runVars, calls, fn, arg>>

FnNext ==
    \/ CallGuard
    \/ CallConfidence
    \/ CallReformulate
    \/ CallToolRequirements
    \/ CallAnalysis

FnSpec == FnInit /\ [][FnNext]_vars

(***************************************************************************)
(* Properties of the guard stage and of the confidence score (FnSpec)      *)
(***************************************************************************)

\* term occurs in text in some letter case: at some place of the text each
\* character is that of the term, or its upper-case letter
OccursAnyCase(text, term) ==
    \E i \in 1..(Len(text) - Len(term) + 1) :
        \A j \in 1..Len(term) :
            LowerChar(SubSeq(text, i + j - 1, i + j - 1)) = SubSeq(term, j, j)

MatchedTerms(text) ==
    SelectSeq(sensitive_patterns, LAMBDA term : OccursAnyCase(text, term))

GuardCalled == fn = "guard" /\ out.done

\* C6: a response that contains a sensitive term in any letter case is not
\* approved, requires human review, has one violation per matched term in the
\* order of the term list, and is handed to 'human'
C6_SensitiveTermFlagged ==
    (GuardCalled /\ Len(MatchedTerms(arg)) > 0) =>
        LET g       == out.value.guard_result
            matched == MatchedTerms(arg)
        IN  /\ g.policy_approved = FALSE
            /\ g.requires_human_review = TRUE
            /\ out.value.next_agent = "human"
            /\ Len(g.policy_violations) >= Len(matched)
            /\ \A i \in 1..Len(matched) :
                  g.policy_violations[i] = SensitiveViolation(matched[i])
            /\ \A i \in (Len(matched) + 1)..Len(g.policy_violations) :
                  g.policy_violations[i] = LengthViolation

\* a response with two terms in mixed case, the second of the list first
C6_Witness ==
    /\ GuardCalled
    /\ arg = "Credit CardPassWord"
    /\ out.value.guard_result.policy_violations =
          << SensitiveViolation("password"), SensitiveViolation("credit card") >>

LongAndClean == GuardCalled /\ Len(arg) > MaxResponseLen /\ Len(MatchedTerms(arg)) = 0

C8_LengthThreshold ==
    (GuardCalled /\ Len(MatchedTerms(arg)) = 0) =>
        LET g == out.value.guard_result
        IN  IF Len(arg) > MaxResponseLen
            THEN /\ g.policy_violations = << LengthViolation >>
                 /\ g.requires_human_review = TRUE
                 /\ out.value.next_agent = "human"
            ELSE /\ g.policy_violations = << >>
                 /\ g.requires_human_review = FALSE
                 /\ out.value.next_agent = "complete"

\* a clean response of exactly 2000 characters passes
C8_Witness ==
    /\ GuardCalled
    /\ Len(arg) = MaxResponseLen
    /\ Len(MatchedTerms(arg)) = 0
    /\ out.value.next_agent = "complete"

ConfidenceCalled == fn = "confidence" /\ out.done

AllNumeric(documents) ==
    \A i \in 1..Len(documents) : DistanceOf(documents[i]) # NoneFloat

\* C9: for every document list with numeric distances the confidence lies in
\* [0, 1], and it is exactly 0 for the empty list
C9_ConfidenceInUnitInterval ==
    (ConfidenceCalled /\ AllNumeric(arg)) =>
        /\ out.result.ok
        /\ RLe(Rat(0, 1), out.result.value)
        /\ RLe(out.result.value, Rat(1, 1))
        /\ (Len(arg) = 0 => out.result.value = Rat(0, 1))

\* six documents at distance -1.5: base 1.0 times factor 2.5, cut to 1.0
C9_Witness ==
    /\ ConfidenceCalled
    /\ Len(arg) = 6
    /\ \A i \in 1..Len(arg) : DistanceOf(arg[i]) = Rat(-150, 100)
    /\ REq(out.result.value, Rat(1, 1))

(***************************************************************************)
(* Properties of the planning stage (FnSpec)                               *)
(***************************************************************************)

ReformulateCalled == fn = "reformulate" /\ out.done

HasQuestionWord(text) ==
    \E i \in 1..Len(question_words) : Contains(text, question_words[i] \o " ")

\* C11 as stated: the output of one reformulation holds no interrogative word
\* followed by a space, and a second reformulation returns it unchanged
C11_ReformulateIdempotent ==
    ReformulateCalled =>
        /\ ~HasQuestionWord(out.value)
        /\ ReformulateQuery(out.value) = out.value

ToolsCalled == fn = "tools" /\ out.done

TableOrder ==
    <<"consultar_cfdi", "consultar_curp", "wikipedia_search", "obtener_texto_en_documento">>

\* the place of a tool in the fixed table order
TablePlace(tool) == CHOOSE i \in 1..Len(TableOrder) : TableOrder[i] = tool

KeywordOccurs(question, i) ==
    \E j \in 1..Len(ToolKeywords[i].terms) :
        OccursAnyCase(question, ToolKeywords[i].terms[j])

\* C12: requires_tools names a tool exactly when one of its keywords occurs in
\* the question in some letter case, names the tools in the table order, and
\* names no tool twice
C12_ToolsByKeywordInTableOrder ==
    ToolsCalled =>
        /\ \A i \in 1..Len(ToolKeywords) :
              KeywordOccurs(arg, i) <=>
                  \E n \in 1..Len(out.value) : out.value[n] = ToolKeywords[i].tool
        /\ \A n \in 1..Len(out.value) :
              \E i \in 1..Len(TableOrder) : out.value[n] = TableOrder[i]
        /\ \A m, n \in 1..Len(out.value) :
              m < n => TablePlace(out.value[m]) < TablePlace(out.value[n])
        /\ (OccursAnyCase(arg, "cfdi") => out.value[1] = "consultar_cfdi")

\* the wiki keyword before the CFDI keyword, both in upper or mixed case, and
\* two keywords of one tool
C12_Witness ==
    /\ ToolsCalled
    /\ arg = "WikiCFDIFactura"
    /\ out.value = <<"consultar_cfdi", "wikipedia_search">>

(***************************************************************************)
(* Properties of the tool execution of the analysis stage (FnSpec)         *)
(***************************************************************************)

AnalysisCalled == fn = "analysis" /\ out.done

RequiredTools == arg.context.plan.requires_tools

\* the documents are such that the confidence score is computed
ScoreComputable ==
    \A i \in 1..Len(arg.context.retrieval_result.documents) :
        "distance" \in DOMAIN arg.context.retrieval_result.documents[i] =>
            arg.context.retrieval_result.documents[i].distance # NoneFloat

\* the one registered tool the stage invokes is required and its call faults
WikiFaults ==
    /\ \E i \in 1..Len(RequiredTools) : RequiredTools[i] = "wikipedia_search"
    /\ ~arg.call.ok

\* C14: whatever the list of required tools and whichever invocation faults,
\* the analysis stage completes with next_agent 'guard', and tool_results
\* holds one entry for each required registered tool: the error string under
\* the name of the tool whose invocation faulted, the normal result under the
\* name of every other, those after the faulting one included
C14_ToolFaultsIsolated ==
    (AnalysisCalled /\ ScoreComputable) =>
        /\ out.result.ok
        /\ out.result.value.next_agent = "guard"
        /\ LET tool_results == out.result.value.analysis_result.tool_results
           IN  /\ DOMAIN tool_results =
                     {t \in {"wikipedia_search", "consultar_cfdi", "consultar_curp",
                              "obtener_texto_en_documento"} :
                         \E i \in 1..Len(RequiredTools) : RequiredTools[i] = t}
               /\ \A t \in DOMAIN tool_results :
                     tool_results[t] =
                        IF t # "wikipedia_search"
                        THEN "Tool " \o t \o " requires specific parameters"
                        ELSE IF arg.call.ok THEN arg.call.value
                        ELSE "Error executing " \o t \o ": " \o arg.call.error

\* the faulting tool is the first of three required tools, the second is not
\* registered, and the third still gets its result
C14_Witness ==
    /\ AnalysisCalled
    /\ WikiFaults
    /\ RequiredTools = <<"wikipedia_search", "consultar_rfc", "consultar_cfdi">>
    /\ out.result.ok
    /\ DOMAIN out.result.value.analysis_result.tool_results =
          {"wikipedia_search", "consultar_cfdi"}

(***************************************************************************)
(* Properties of a request to the four built-in stages (Spec), continued   *)
(***************************************************************************)

StageProcessed(id) ==
    \E i \in 1..Len(trace) : trace[i].agent = id /\ trace[i].action = "processed"

\* a finished run whose retrieval stage returned the empty document list
EmptyRetrieval ==
    /\ pc = "done"
    /\ StageProcessed("retrieval")
    /\ Len(RetrievedDocuments) = 0

CouldNotFind == "I couldn't find relevant information to answer: " \o request.question

EndsApprovedAtComplete ==
    /\ "guard_result" \in DOMAIN context
    /\ context["guard_result"].policy_approved = TRUE
    /\ context["guard_result"].requires_human_review = FALSE
    /\ final_response.requires_human_review = FALSE
    /\ current_agent = "complete"
    /\ HumanEntries = 0

\* C13 as stated: for every question, an empty retrieval ends with the fixed
\* text on the original question, confidence 0.0, the guard's approval and the
\* stage 'complete', with no 'human' trace entry
C13_Original ==
    EmptyRetrieval =>
        /\ final_response.response = CouldNotFind
        /\ final_response.confidence = Rat(0, 1)
        /\ EndsApprovedAtComplete

\* the text is clean: no sensitive term in any letter case, and no more than
\* 2000 characters
CleanText(text) == Len(MatchedTerms(text)) = 0 /\ Len(text) <= MaxResponseLen

\* C13 amended: an empty retrieval ends with the fixed text on the original
\* question and confidence 0.0; the guard approves it and the run ends at
\* 'complete' with no 'human' entry when that text is clean; when the question
\* brings a sensitive term into it, the guard withholds approval and the run
\* ends with the 'human' entry
C13_EmptyRetrievalAnswer ==
    EmptyRetrieval =>
        /\ final_response.response = CouldNotFind
        /\ final_response.confidence = Rat(0, 1)
        /\ IF CleanText(CouldNotFind)
           THEN EndsApprovedAtComplete
           ELSE /\ context["guard_result"].policy_approved = FALSE
                /\ final_response.requires_human_review = TRUE
                /\ current_agent = "human"
                /\ IsHumanEntry(Last(trace))

\* the index has no match for a clean question that asks for a tool
C13_Witness ==
    /\ EmptyRetrieval
    /\ request.question = "Who wrote the wiki"
    /\ Len(index_calls) = 1
    /\ final_response.response =
          "I couldn't find relevant information to answer: Who wrote the wiki"
    /\ current_agent = "complete"


\* C15 as stated: the index is queried with the request's k only when that is
\* a positive integer, and with 5 when the request has no k or a k of 0 or less
C15_NonPositiveKDefaults ==
    \A i \in 1..Len(index_calls) :
        /\ index_calls[i].n_results > 0
        /\ index_calls[i].n_results =
              IF "k" \in DOMAIN request /\ request.k > 0 THEN request.k ELSE 5

\* C16 as stated: once the index has faulted on a query, the run has stopped
\* and its trace ends with the 'error' entry of the retrieval stage, and the
\* analysis stage does not run
C16_IndexFaultIsError ==
    (Len(index_calls) > 0 /\ index_fault) =>
        /\ pc \in {"exit", "done"}
        /\ Last(trace).agent = "retrieval"
        /\ Last(trace).action = "error"
        /\ ~StageProcessed("analysis")


\* the keys of the partial update each built-in stage returns
PartialUpdateKeys(id) ==
    CASE id = "planning"  -> {"plan", "next_agent"}
      [] id = "retrieval" -> {"retrieval_result", "next_agent"}
      [] id = "analysis"  -> {"analysis_result", "next_agent"}
      [] id = "guard"     -> {"guard_result", "next_agent"}
      [] OTHER            -> {}

StageCompletes ==
    Len(trace') = Len(trace) + 1 /\ Last(trace').action = "processed"

\* C17: no step of a run removes a key of the context; a stage that completes
\* adds or overwrites only the keys of its partial update and leaves every
\* other key with its value; every other step of the loop, a stage that
\* faults included, leaves the context as it was
C17_ContextGrows ==
    [][/\ DOMAIN context \subseteq DOMAIN context'
       /\ (pc = "loop" /\ StageCompletes) =>
              /\ DOMAIN context' \subseteq
                    DOMAIN context \cup PartialUpdateKeys(current_agent)
              /\ PartialUpdateKeys(current_agent) \subseteq DOMAIN context'
              /\ \A key \in DOMAIN context \ PartialUpdateKeys(current_agent) :
                    context'[key] = context[key]
       /\ (pc # "idle" /\ ~StageCompletes) => context' = context]_vars

\* the request brought its own analysis_result, the analysis stage overwrote
\* it, and the context holds the seeded keys and those of all four stages
C17_Witness ==
    /\ pc = "done"
    /\ "analysis_result" \in DOMAIN request
    /\ context["analysis_result"] # request["analysis_result"]
    /\ DOMAIN context =
          {"conversation_id", "timestamp", "question", "plan", "retrieval_result",
           "analysis_result", "guard_result", "next_agent"}

\* C21 as stated: a run that halted on a fault before the analysis stage
\* completed returns the default values (empty response, no sources, no tool
\* results, confidence 0.0, no human review), and its last trace entry names
\* the failing stage and its step
C21_FaultGivesDefaults ==
    (pc = "done" /\ Len(faults) > 0 /\ ~StageProcessed("analysis")) =>
        /\ final_response.response = ""
        /\ final_response.sources = << >>
        /\ final_response.tool_results = EmptyDict
        /\ final_response.confidence = Rat(0, 1)
        /\ final_response.requires_human_review = FALSE
        /\ Last(final_response.workflow_trace).action = "error"
        /\ Last(final_response.workflow_trace).agent = faults[1].agent
        /\ Last(final_response.workflow_trace).step = faults[1].step

\* C22: in every run whose guard stage completed, the modified_response of
\* the guard result and the response of the FinalResult are the response text
\* of the analysis stage, the text the guard was given, character for
\* character, whether or not violations were recorded
C22_GuardNeverSubstitutes ==
    StageProcessed("guard") =>
        /\ StageProcessed("analysis")
        /\ guarded = { context["analysis_result"].response }
        /\ context["guard_result"].modified_response = context["analysis_result"].response
        /\ (pc = "done" => final_response.response = context["analysis_result"].response)

\* the response quotes a document that holds a sensitive term: the guard
\* records the violation, requires review, and the text is delivered as it was
C22_Witness ==
    /\ pc = "done"
    /\ StageProcessed("guard")
    /\ Len(context["guard_result"].policy_violations) > 0
    /\ final_response.requires_human_review = TRUE
    /\ Contains(final_response.response, "The admin Password is hunter2.")

StageOrder == <<"planning", "retrieval", "analysis", "guard">>

ProcessedPlaces == {i \in 1..Len(trace) : trace[i].action = "processed"}

\* C23: the 'processed' entries are the first entries of the trace and name
\* the stages planning, retrieval, analysis, guard in that order from step 1,
\* each at most once; at most one entry follows them, the 'error' entry or
\* the 'human' entry; a finished run with no fault has the four 'processed'
\* entries at steps 1 to 4, followed by nothing or by the 'human' entry at
\* step 5
C23_StagesInOrder ==
    /\ Cardinality(ProcessedPlaces) <= Len(StageOrder)
    /\ ProcessedPlaces = 1..Cardinality(ProcessedPlaces)
    /\ \A i \in ProcessedPlaces : trace[i].agent = StageOrder[i] /\ trace[i].step = i
    /\ Len(trace) <= Cardinality(ProcessedPlaces) + 1
    /\ (pc = "done" /\ Len(faults) = 0) =>
          /\ Cardinality(ProcessedPlaces) = 4
          /\ Len(trace) = 5 =>
                trace[5] = [step |-> 5, agent |-> "human", action |-> "human_review_required"]

\* the four stages ran in order and the guard handed over to 'human'
C23_Witness ==
    /\ pc = "done"
    /\ Len(trace) = 5
    /\ \A i \in 1..4 : trace[i] = [step |-> i, agent |-> StageOrder[i], action |-> "processed"]
    /\ trace[5].agent = "human"

PlainRequest == DOMAIN request \subseteq {"question", "k"}

\* C24: for a request that carries only question and k, the finished run
\* reports requires_human_review = true exactly when its trace ends with the
\* 'human' entry with action 'human_review_required'; a trace that ends with
\* a 'processed' or an 'error' entry goes with requires_human_review = false
C24_ReviewIffHumanEntry ==
    (pc = "done" /\ PlainRequest) =>
        /\ Len(trace) > 0
        /\ final_response.requires_human_review =
              (Last(trace).agent = "human"
               /\ Last(trace).action = "human_review_required")
        /\ Last(trace).action \in {"processed", "error"} =>
              final_response.requires_human_review = FALSE

\* the question itself brings the sensitive term into the answer: no document
\* is found, the guard requires review, and the trace ends with 'human'
C24_Witness ==
    /\ pc = "done"
    /\ request = [question |-> "Reset my PassWord", k |-> 0]
    /\ final_response.requires_human_review = TRUE
    /\ Last(trace).action = "human_review_required"

====
